---- MODULE Spec2Model ----
(***************************************************************************)
(* A model of the bytewords codec and of the Decode pipeline of package    *)
(* bcur (src/bytewords.go).                                                *)
(*                                                                         *)
(* Strings are sequences of byte values (Go strings are byte strings), so  *)
(* "able" is <<97, 98, 108, 101>>.  Go indexes from 0, TLA+ sequences from *)
(* 1: the word table and the lookup table are functions on 0..255 and      *)
(* 0..675, strings and slices are 1-based sequences.                       *)
(***************************************************************************)
EXTENDS Integers, Sequences, FiniteSets, TLC

VARIABLES
    words,        \* var words [256]string
    lookupTable,  \* var lookupTable [26*26]int16
    ip,           \* position of init(): "words", "clear", "fill", "ready"
    i,            \* loop index of the running loop of init()
    pc,           \* position of the codec scenario
    mem,          \* the caller's backing array
    dlen,         \* length of the caller's slice data = mem[0:dlen]
    variant,      \* wordLen of the scenario: 2 (minimal) or 4 (standard)
    str,          \* the string handed to decode
    res,          \* outcome of the last call of decode
    prevStr,      \* the string of the call before the last edit
    prevRes,      \* outcome of decode on prevStr
    edit,         \* the last edit made to str
    buf,          \* decode's local buf in the last call
    stage,        \* position of Decode
    input,        \* argument of Decode
    decoded,      \* Decode's local decoded
    inner,        \* Decode's local inner (the value tree)
    raw,          \* Decode's local raw
    version,      \* Decode's local version
    accList,      \* Decode's local accList
    accounts,     \* Decode's local accounts
    root,         \* the Root Decode returned
    outcome       \* how the call of Decode ended

tableVars  == <<words, lookupTable, ip, i>>
codecVars  == <<pc, mem, dlen, variant, str, res, buf, prevStr, prevRes, edit>>
decodeVars == <<stage, input, decoded, inner, raw, version, accList, accounts, root, outcome>>
vars == <<tableVars, codecVars, decodeVars>>

-----------------------------------------------------------------------------
(* Bounds of the model *)

\* longest body handed to the encoders
MaxLen == 2
\* most account entries in a value tree
MaxAccounts == 2

\* byte values the bodies are made of
ByteVals == {0, 7, 255}
\* spare capacity (cap - len) of the caller's slice
SpareCaps == {0, 3, 4, 5}
\* the byte the caller's spare capacity holds before the call
SpareFill == 170
\* characters an edit writes: space, 'A', 'e', 'z', '{', 0xC9
EditChars == {32, 65, 101, 122, 123, 201}

-----------------------------------------------------------------------------
(* The static alphabet and the tables init() builds from it *)

bytewords == <<
    97, 98, 108, 101, 97, 99, 105, 100, 97, 108, 115, 111, 97, 112, 101, 120, 97, 113, 117, 97, 97, 114, 99, 104, 97, 116, 111, 109, 97, 117, 110, 116,
    97, 119, 97, 121, 97, 120, 105, 115, 98, 97, 99, 107, 98, 97, 108, 100, 98, 97, 114, 110, 98, 101, 108, 116, 98, 101, 116, 97, 98, 105, 97, 115,
    98, 108, 117, 101, 98, 111, 100, 121, 98, 114, 97, 103, 98, 114, 101, 119, 98, 117, 108, 98, 98, 117, 122, 122, 99, 97, 108, 109, 99, 97, 115, 104,
    99, 97, 116, 115, 99, 104, 101, 102, 99, 105, 116, 121, 99, 108, 97, 119, 99, 111, 100, 101, 99, 111, 108, 97, 99, 111, 111, 107, 99, 111, 115, 116,
    99, 114, 117, 120, 99, 117, 114, 108, 99, 117, 115, 112, 99, 121, 97, 110, 100, 97, 114, 107, 100, 97, 116, 97, 100, 97, 121, 115, 100, 101, 108, 105,
    100, 105, 99, 101, 100, 105, 101, 116, 100, 111, 111, 114, 100, 111, 119, 110, 100, 114, 97, 119, 100, 114, 111, 112, 100, 114, 117, 109, 100, 117, 108, 108,
    100, 117, 116, 121, 101, 97, 99, 104, 101, 97, 115, 121, 101, 99, 104, 111, 101, 100, 103, 101, 101, 112, 105, 99, 101, 118, 101, 110, 101, 120, 97, 109,
    101, 120, 105, 116, 101, 121, 101, 115, 102, 97, 99, 116, 102, 97, 105, 114, 102, 101, 114, 110, 102, 105, 103, 115, 102, 105, 108, 109, 102, 105, 115, 104,
    102, 105, 122, 122, 102, 108, 97, 112, 102, 108, 101, 119, 102, 108, 117, 120, 102, 111, 120, 121, 102, 114, 101, 101, 102, 114, 111, 103, 102, 117, 101, 108,
    102, 117, 110, 100, 103, 97, 108, 97, 103, 97, 109, 101, 103, 101, 97, 114, 103, 101, 109, 115, 103, 105, 102, 116, 103, 105, 114, 108, 103, 108, 111, 119,
    103, 111, 111, 100, 103, 114, 97, 121, 103, 114, 105, 109, 103, 117, 114, 117, 103, 117, 115, 104, 103, 121, 114, 111, 104, 97, 108, 102, 104, 97, 110, 103,
    104, 97, 114, 100, 104, 97, 119, 107, 104, 101, 97, 116, 104, 101, 108, 112, 104, 105, 103, 104, 104, 105, 108, 108, 104, 111, 108, 121, 104, 111, 112, 101,
    104, 111, 114, 110, 104, 117, 116, 115, 105, 99, 101, 100, 105, 100, 101, 97, 105, 100, 108, 101, 105, 110, 99, 104, 105, 110, 107, 121, 105, 110, 116, 111,
    105, 114, 105, 115, 105, 114, 111, 110, 105, 116, 101, 109, 106, 97, 100, 101, 106, 97, 122, 122, 106, 111, 105, 110, 106, 111, 108, 116, 106, 111, 119, 108,
    106, 117, 100, 111, 106, 117, 103, 115, 106, 117, 109, 112, 106, 117, 110, 107, 106, 117, 114, 121, 107, 101, 101, 112, 107, 101, 110, 111, 107, 101, 112, 116,
    107, 101, 121, 115, 107, 105, 99, 107, 107, 105, 108, 110, 107, 105, 110, 103, 107, 105, 116, 101, 107, 105, 119, 105, 107, 110, 111, 98, 108, 97, 109, 98,
    108, 97, 118, 97, 108, 97, 122, 121, 108, 101, 97, 102, 108, 101, 103, 115, 108, 105, 97, 114, 108, 105, 109, 112, 108, 105, 111, 110, 108, 105, 115, 116,
    108, 111, 103, 111, 108, 111, 117, 100, 108, 111, 118, 101, 108, 117, 97, 117, 108, 117, 99, 107, 108, 117, 110, 103, 109, 97, 105, 110, 109, 97, 110, 121,
    109, 97, 116, 104, 109, 97, 122, 101, 109, 101, 109, 111, 109, 101, 110, 117, 109, 101, 111, 119, 109, 105, 108, 100, 109, 105, 110, 116, 109, 105, 115, 115,
    109, 111, 110, 107, 110, 97, 105, 108, 110, 97, 118, 121, 110, 101, 101, 100, 110, 101, 119, 115, 110, 101, 120, 116, 110, 111, 111, 110, 110, 111, 116, 101,
    110, 117, 109, 98, 111, 98, 101, 121, 111, 98, 111, 101, 111, 109, 105, 116, 111, 110, 121, 120, 111, 112, 101, 110, 111, 118, 97, 108, 111, 119, 108, 115,
    112, 97, 105, 100, 112, 97, 114, 116, 112, 101, 99, 107, 112, 108, 97, 121, 112, 108, 117, 115, 112, 111, 101, 109, 112, 111, 111, 108, 112, 111, 115, 101,
    112, 117, 102, 102, 112, 117, 109, 97, 112, 117, 114, 114, 113, 117, 97, 100, 113, 117, 105, 122, 114, 97, 99, 101, 114, 97, 109, 112, 114, 101, 97, 108,
    114, 101, 100, 111, 114, 105, 99, 104, 114, 111, 97, 100, 114, 111, 99, 107, 114, 111, 111, 102, 114, 117, 98, 121, 114, 117, 105, 110, 114, 117, 110, 115,
    114, 117, 115, 116, 115, 97, 102, 101, 115, 97, 103, 97, 115, 99, 97, 114, 115, 101, 116, 115, 115, 105, 108, 107, 115, 107, 101, 119, 115, 108, 111, 116,
    115, 111, 97, 112, 115, 111, 108, 111, 115, 111, 110, 103, 115, 116, 117, 98, 115, 117, 114, 102, 115, 119, 97, 110, 116, 97, 99, 111, 116, 97, 115, 107,
    116, 97, 120, 105, 116, 101, 110, 116, 116, 105, 101, 100, 116, 105, 109, 101, 116, 105, 110, 121, 116, 111, 105, 108, 116, 111, 109, 98, 116, 111, 121, 115,
    116, 114, 105, 112, 116, 117, 110, 97, 116, 119, 105, 110, 117, 103, 108, 121, 117, 110, 100, 111, 117, 110, 105, 116, 117, 114, 103, 101, 117, 115, 101, 114,
    118, 97, 115, 116, 118, 101, 114, 121, 118, 101, 116, 111, 118, 105, 97, 108, 118, 105, 98, 101, 118, 105, 101, 119, 118, 105, 115, 97, 118, 111, 105, 100,
    118, 111, 119, 115, 119, 97, 108, 108, 119, 97, 110, 100, 119, 97, 114, 109, 119, 97, 115, 112, 119, 97, 118, 101, 119, 97, 120, 121, 119, 101, 98, 115,
    119, 104, 97, 116, 119, 104, 101, 110, 119, 104, 105, 122, 119, 111, 108, 102, 119, 111, 114, 107, 121, 97, 110, 107, 121, 97, 119, 110, 121, 101, 108, 108,
    121, 111, 103, 97, 121, 117, 114, 116, 122, 97, 112, 115, 122, 101, 114, 111, 122, 101, 115, 116, 122, 105, 110, 99, 122, 111, 110, 101, 122, 111, 111, 109 >>

NotFound == -1

\* bytewords[i*4 : i*4+4]
WordAt(n) == SubSeq(bytewords, n * 4 + 1, n * 4 + 4)

\* the offset taken from the first two letters instead of the first and last
Offset_FirstTwo(w) == (w[2] - 97) * 26 + (w[1] - 97)

\* offset := int(y)*26 + int(x), x and y the first and last letter less 'a'
Offset(w) == (w[4] - 97) * 26 + (w[1] - 97)

\* words[i] = bytewords[i*4 : i*4+4]
SetWord(ws, n) == [ws EXCEPT ![n] = WordAt(n)]

\* lookupTable[offset] = int16(i)
FillSlot(lt, ws, n) == [lt EXCEPT ![Offset(ws[n])] = n]

\* the tables as init() leaves them: each word in its place, each slot
\* holding the last index written to it (-1 when none was)
WordsBuilt == [n \in 0..255 |-> WordAt(n)]
LookupBuilt ==
    [o \in 0..675 |->
        LET W == {n \in 0..255 : Offset(WordAt(n)) = o}
        IN  IF W = {} THEN NotFound ELSE CHOOSE n \in W : \A m \in W : m <= n]

TablesReady ==
    /\ words = WordsBuilt
    /\ lookupTable = LookupBuilt
    /\ ip = "ready"
    /\ i = 0

(* init(), one action per loop iteration *)

InitWordsStep ==
    /\ ip = "words"
    /\ words' = SetWord(words, i)
    /\ IF i < 255 THEN i' = i + 1 /\ ip' = ip ELSE i' = 0 /\ ip' = "clear"
    /\ UNCHANGED lookupTable

InitClearStep ==
    /\ ip = "clear"
    /\ lookupTable' = [lookupTable EXCEPT ![i] = NotFound]
    /\ IF i < 675 THEN i' = i + 1 /\ ip' = ip ELSE i' = 0 /\ ip' = "fill"
    /\ UNCHANGED words

InitFillStep ==
    /\ ip = "fill"
    /\ lookupTable' = FillSlot(lookupTable, words, i)
    /\ IF i < 255 THEN i' = i + 1 /\ ip' = ip ELSE i' = 0 /\ ip' = "ready"
    /\ UNCHANGED words

-----------------------------------------------------------------------------
(* Outcomes of a call: a returned value, a returned error, a runtime panic *)

Returned(b) == [kind |-> "ok", err |-> "", body |-> b]
Failed(e)   == [kind |-> "err", err |-> e, body |-> <<>>]
Panicked(e) == [kind |-> "panic", err |-> e, body |-> <<>>]
NoCall      == [kind |-> "none", err |-> "", body |-> <<>>]

-----------------------------------------------------------------------------
(* decodeWord *)

\* unicode.ToLower(rune(c)) for a byte c: ASCII and Latin-1 upper case
ToLower(c) ==
    IF c \in 65..90 THEN c + 32
    ELSE IF c \in 192..222 /\ c # 215 THEN c + 32
    ELSE c

\* decodeWord comparing only the first of the two interior characters
decodeWord_OneInterior(word, wordLen) ==
    IF Len(word) # wordLen THEN [ok |-> FALSE, val |-> 0, err |-> "invalid bytewords length"]
    ELSE
      LET x == ToLower(word[1]) - 97
          y == IF wordLen = 4 THEN ToLower(word[4]) - 97 ELSE ToLower(word[2]) - 97
      IN  IF x < 0 \/ x >= 26 \/ y < 0 \/ y >= 26
          THEN [ok |-> FALSE, val |-> 0, err |-> "invalid bytewords"]
          ELSE
            LET val == lookupTable[y * 26 + x]
            IN  IF val = NotFound
                THEN [ok |-> FALSE, val |-> 0, err |-> "invalid bytewords"]
                ELSE IF wordLen = 4 /\ word[2] # words[val][2]
                THEN [ok |-> FALSE, val |-> 0, err |-> "invalid bytewords middle chars"]
                ELSE [ok |-> TRUE, val |-> val, err |-> ""]

decodeWord(word, wordLen) ==
    IF Len(word) # wordLen THEN [ok |-> FALSE, val |-> 0, err |-> "invalid bytewords length"]
    ELSE
      LET x == ToLower(word[1]) - 97
          y == IF wordLen = 4 THEN ToLower(word[4]) - 97 ELSE ToLower(word[2]) - 97
      IN  IF x < 0 \/ x >= 26 \/ y < 0 \/ y >= 26
          THEN [ok |-> FALSE, val |-> 0, err |-> "invalid bytewords"]
          ELSE
            LET val == lookupTable[y * 26 + x]
            IN  IF val = NotFound
                THEN [ok |-> FALSE, val |-> 0, err |-> "invalid bytewords"]
                ELSE IF wordLen = 4
                        /\ (word[2] # words[val][2] \/ word[3] # words[val][3])
                THEN [ok |-> FALSE, val |-> 0, err |-> "invalid bytewords middle chars"]
                ELSE [ok |-> TRUE, val |-> val, err |-> ""]

-----------------------------------------------------------------------------
(* CRC-32 (IEEE), on two 16-bit halves: the values do not fit 31 bits *)

RECURSIVE Xor(_, _)
Xor(a, b) ==
    IF a = 0 THEN b
    ELSE IF b = 0 THEN a
    ELSE ((a + b) % 2) + 2 * Xor(a \div 2, b \div 2)

\* one bit of the reflected division by 0xEDB88320
CrcShift(c) ==
    LET hi == c[1] \div 2
        lo == (c[2] \div 2) + (c[1] % 2) * 32768
    IN  IF c[2] % 2 = 1 THEN <<Xor(hi, 60856), Xor(lo, 33568)>> ELSE <<hi, lo>>

\* a checksum in progress: <<high half, low half>>
Halves == (0..65535) \X (0..65535)

\* n more bits of the division
CrcBits[st \in Halves \X (0..8)] ==
    IF st[2] = 0 THEN st[1] ELSE CrcBits[<<CrcShift(st[1]), st[2] - 1>>]

\* the checksum in progress c after the bytes of data from the j-th on
CrcUpdate(c, data, j) ==
    LET upd[st \in Halves \X (1..(Len(data) + 1))] ==
            IF st[2] > Len(data) THEN st[1]
            ELSE upd[<<CrcBits[<<<<st[1][1], Xor(st[1][2], data[st[2]])>>, 8>>],
                       st[2] + 1>>]
    IN  upd[<<c, j>>]

\* crc32.ChecksumIEEE(data), as <<high half, low half>>
ChecksumIEEE(data) ==
    LET c == CrcUpdate(<<65535, 65535>>, data, 1)
    IN  <<Xor(c[1], 65535), Xor(c[2], 65535)>>

\* binary.BigEndian.PutUint32 of the checksum
crc32Bytes(data) ==
    LET c == ChecksumIEEE(data)
    IN  <<c[1] \div 256, c[1] % 256, c[2] \div 256, c[2] % 256>>

-----------------------------------------------------------------------------
(* appendCRC and the encoders.  A slice is the first n bytes of its backing *)
(* array m; cap is Len(m).  append writes in place when the capacity       *)
(* suffices and into a fresh array otherwise.                              *)

appendCRC(m, n) ==
    LET data == SubSeq(m, 1, n)
        crc == crc32Bytes(data)
    IN  IF n + 4 <= Len(m)
        THEN [data |-> data \o crc,
              mem |-> [p \in 1..Len(m) |->
                          IF p > n /\ p <= n + 4 THEN crc[p - n] ELSE m[p]]]
        ELSE [data |-> data \o crc, mem |-> m]

RECURSIVE MinimalFrom(_, _)
MinimalFrom(data, j) ==
    IF j > Len(data) THEN <<>>
    ELSE <<words[data[j]][1], words[data[j]][4]>> \o MinimalFrom(data, j + 1)

encodeMinimal(m, n) ==
    LET a == appendCRC(m, n)
    IN  [s |-> MinimalFrom(a.data, 1), mem |-> a.mem]

\* strings.Join(parts, sep)
RECURSIVE Join(_, _, _)
Join(parts, sep, j) ==
    IF j > Len(parts) THEN <<>>
    ELSE IF j = Len(parts) THEN parts[j]
    ELSE parts[j] \o sep \o Join(parts, sep, j + 1)

encodeStandard(m, n) ==
    LET a == appendCRC(m, n)
        parts == [j \in 1..Len(a.data) |-> words[a.data[j]]]
    IN  [s |-> Join(parts, <<32>>, 1), mem |-> a.mem]

-----------------------------------------------------------------------------
(* decode *)

\* the size utf8.DecodeRuneInString gives for the string that starts at
\* position p of s: the length of a well-formed UTF-8 sequence there, and 1
\* for any other byte
Utf8Size(s, p) ==
    LET b == s[p]
        n == Len(s)
        cont(q) == q <= n /\ s[q] \in 128..191
        second(lo, hi) == p + 1 <= n /\ s[p + 1] \in lo..hi
    IN  IF b \in 194..223 /\ cont(p + 1) THEN 2
        ELSE IF b = 224 /\ second(160, 191) /\ cont(p + 2) THEN 3
        ELSE IF (b \in 225..236 \/ b \in 238..239) /\ cont(p + 1) /\ cont(p + 2) THEN 3
        ELSE IF b = 237 /\ second(128, 159) /\ cont(p + 2) THEN 3
        ELSE IF b = 240 /\ second(144, 191) /\ cont(p + 2) /\ cont(p + 3) THEN 4
        ELSE IF b \in 241..243 /\ cont(p + 1) /\ cont(p + 2) /\ cont(p + 3) THEN 4
        ELSE IF b = 244 /\ second(128, 143) /\ cont(p + 2) /\ cont(p + 3) THEN 4
        ELSE 1

\* strings.Split(s, "") explodes s into its UTF-8 sequences, an invalid
\* byte being a string of its own
RECURSIVE Explode(_, _)
Explode(s, p) ==
    IF p > Len(s) THEN <<>>
    ELSE LET size == Utf8Size(s, p)
         IN  <<SubSeq(s, p, p + size - 1)>> \o Explode(s, p + size)

\* strings.Split(s, sep)
Split(s, sep) ==
    LET n == Len(s)
        m == Len(sep)
        RECURSIVE Scan(_, _)
        Scan(start, p) ==
            IF p + m - 1 > n THEN <<SubSeq(s, start, n)>>
            ELSE IF SubSeq(s, p, p + m - 1) = sep
                 THEN <<SubSeq(s, start, p - 1)>> \o Scan(p + m, p + m)
                 ELSE Scan(start, p + 1)
    IN  IF m = 0 THEN Explode(s, 1) ELSE Scan(1, 1)

\* for i := 0; i < len(s); i += 2 { tokens = append(tokens, s[i:i+2]) }
\* s[i:i+2] panics when i+2 > len(s)
RECURSIVE Chunks(_, _)
Chunks(s, p) ==
    IF p >= Len(s) THEN [panic |-> FALSE, toks |-> <<>>]
    ELSE IF p + 2 > Len(s) THEN [panic |-> TRUE, toks |-> <<>>]
    ELSE LET r == Chunks(s, p + 2)
         IN  [panic |-> r.panic, toks |-> <<SubSeq(s, p + 1, p + 2)>> \o r.toks]

Tokens(s, wordLen, sep) ==
    IF wordLen = 4 THEN [panic |-> FALSE, toks |-> Split(s, sep)] ELSE Chunks(s, 0)

\* the loop over the tokens: buf, or the first error
RECURSIVE DecodeWords(_, _, _)
DecodeWords(toks, wordLen, j) ==
    IF j > Len(toks) THEN [err |-> "", buf |-> <<>>]
    ELSE LET w == decodeWord(toks[j], wordLen)
         IN  IF ~w.ok THEN [err |-> w.err, buf |-> <<>>]
             ELSE LET r == DecodeWords(toks, wordLen, j + 1)
                  IN  IF r.err # "" THEN r
                      ELSE [err |-> "", buf |-> <<w.val>> \o r.buf]

\* func equal(a, b []byte) bool
equal(a, b) ==
    /\ Len(a) = Len(b)
    /\ \A j \in 1..Len(a) : a[j] = b[j]

\* the part of decode after the loop, accepting a buf of 4 bytes
CheckBuf_FourBytes(b) ==
    IF Len(b) < 4 THEN Failed("too short")
    ELSE LET body == SubSeq(b, 1, Len(b) - 4)
             checksum == SubSeq(b, Len(b) - 3, Len(b))
         IN  IF ~equal(checksum, crc32Bytes(body))
             THEN Failed("crc mismatch")
             ELSE Returned(body)

\* the part of decode after the loop
CheckBuf(b) ==
    IF Len(b) < 5 THEN Failed("too short")
    ELSE LET body == SubSeq(b, 1, Len(b) - 4)
             checksum == SubSeq(b, Len(b) - 3, Len(b))
         IN  IF ~equal(checksum, crc32Bytes(body))
             THEN Failed("crc mismatch")
             ELSE Returned(body)

decode(s, wordLen, sep) ==
    LET t == Tokens(s, wordLen, sep)
    IN  IF t.panic THEN Panicked("slice bounds out of range")
        ELSE LET d == DecodeWords(t.toks, wordLen, 1)
             IN  IF d.err # "" THEN Failed(d.err) ELSE CheckBuf(d.buf)

\* decode's local buf when the loop over the tokens ends without an error
BufOf(s, wordLen, sep) ==
    LET t == Tokens(s, wordLen, sep)
    IN  IF t.panic THEN [full |-> FALSE, bytes |-> <<>>]
        ELSE LET d == DecodeWords(t.toks, wordLen, 1)
             IN  [full |-> d.err = "", bytes |-> d.buf]

-----------------------------------------------------------------------------
(* Value trees.  A value is a record [t, v]: t names its dynamic type, v    *)
(* holds an integer ("int"), a count of halves ("float", "float64"), a     *)
(* string ("str"), a byte string ("bytes"), a boolean ("bool"), a sequence *)
(* of values ("arr"), or nothing ("map", "null").                          *)

VInt(n)   == [t |-> "int", v |-> n]
VFloat(h) == [t |-> "float", v |-> h]
VStr(s)   == [t |-> "str", v |-> s]
VBytes(b) == [t |-> "bytes", v |-> b]
VBool(b)  == [t |-> "bool", v |-> b]
VArr(a)   == [t |-> "arr", v |-> a]
VMap      == [t |-> "map", v |-> 0]
VNull     == [t |-> "null", v |-> 0]
VFloat64(h) == [t |-> "float64", v |-> h]

\* base64.StdEncoding, which encoding/json writes a []byte with
B64Char(n) ==
    IF n < 26 THEN 65 + n
    ELSE IF n < 52 THEN 97 + (n - 26)
    ELSE IF n < 62 THEN 48 + (n - 52)
    ELSE IF n = 62 THEN 43 ELSE 47

RECURSIVE Base64(_)
Base64(b) ==
    IF Len(b) = 0 THEN <<>>
    ELSE IF Len(b) = 1
    THEN <<B64Char(b[1] \div 4), B64Char((b[1] % 4) * 16), 61, 61>>
    ELSE IF Len(b) = 2
    THEN <<B64Char(b[1] \div 4), B64Char((b[1] % 4) * 16 + b[2] \div 16),
           B64Char((b[2] % 16) * 4), 61>>
    ELSE <<B64Char(b[1] \div 4), B64Char((b[1] % 4) * 16 + b[2] \div 16),
           B64Char((b[2] % 16) * 4 + b[3] \div 64), B64Char(b[3] % 64)>>
         \o Base64(SubSeq(b, 4, Len(b)))

\* json.MarshalIndent fails on a map[interface{}]interface{}, which is what
\* the binary-object decoder makes of a map
RECURSIVE Marshals(_)
Marshals(x) ==
    IF x.t = "map" THEN FALSE
    ELSE IF x.t = "arr" THEN \A j \in 1..Len(x.v) : Marshals(x.v[j])
    ELSE TRUE

\* what json.Unmarshal into an any makes of the JSON text of x
RECURSIVE JsonValue(_)
JsonValue(x) ==
    IF x.t = "int" THEN VFloat64(2 * x.v)
    ELSE IF x.t = "float" THEN VFloat64(x.v)
    ELSE IF x.t = "bytes" THEN VStr(Base64(x.v))
    ELSE IF x.t = "arr" THEN VArr([j \in 1..Len(x.v) |-> JsonValue(x.v[j])])
    ELSE x

\* int(f) of a float64 f: the fraction is dropped
IntOf(f) == IF f.v >= 0 THEN f.v \div 2 ELSE 0 - ((0 - f.v) \div 2)

\* the outcome of json.MarshalIndent followed by json.Unmarshal into []any
JsonRoundTrip(x) ==
    IF ~Marshals(x) THEN [ok |-> FALSE, raw |-> <<>>]
    ELSE IF x.t = "null" THEN [ok |-> TRUE, raw |-> <<>>]
    ELSE IF x.t # "arr" THEN [ok |-> FALSE, raw |-> <<>>]
    ELSE [ok |-> TRUE, raw |-> JsonValue(x).v]

\* a[n].(T) for a 0-based n: "" when it yields a value, else the panic
At(a, n, T) ==
    IF n >= Len(a) THEN "index out of range"
    ELSE IF a[n + 1].t # T THEN "interface conversion"
    ELSE ""

\* the first panic among the evaluations, in their order
RECURSIVE FirstPanic(_)
FirstPanic(es) ==
    IF Len(es) = 0 THEN ""
    ELSE IF Head(es) # "" THEN Head(es)
    ELSE FirstPanic(Tail(es))

\* one iteration of the loop over accList: the Account of entry a, or a panic
MapAccount(a) ==
    IF a.t # "arr" THEN [panic |-> "interface conversion", account |-> <<>>]
    ELSE
      LET arr == a.v
          e4 == At(arr, 4, "arr")
      IN  IF e4 # "" THEN [panic |-> e4, account |-> <<>>]
          ELSE
            LET w == arr[5].v
                e == FirstPanic(<<At(arr, 0, "float64"), At(arr, 1, "float64"),
                                  At(arr, 2, "str"), At(arr, 3, "float64"),
                                  At(w, 0, "str"), At(w, 1, "str"), At(w, 2, "str"),
                                  At(w, 3, "bool"), At(w, 4, "bool"),
                                  At(w, 5, "str"), At(w, 6, "str")>>)
            IN  IF e # "" THEN [panic |-> e, account |-> <<>>]
                ELSE [panic |-> "",
                      account |->
                        [ID |-> IntOf(arr[1]),
                         Index |-> IntOf(arr[2]),
                         Type |-> arr[3].v,
                         Block |-> IntOf(arr[4]),
                         Wallet |->
                           [DerivationPath |-> w[1].v,
                            ChainCode |-> w[2].v,
                            Name |-> w[3].v,
                            Internal1 |-> w[4].v,
                            Internal2 |-> w[5].v,
                            SomeBytes |-> w[6].v,
                            XPub |-> w[7].v]]]

-----------------------------------------------------------------------------
(* The inputs of Decode *)

\* "m/0", "cc==", "name", "xpub", "abc", "ab"
sM0   == <<109, 47, 48>>
sCC   == <<99, 99, 61, 61>>
sName == <<110, 97, 109, 101>>
sXpub == <<120, 112, 117, 98>>
sAbc  == <<97, 98, 99>>
sAb   == <<97, 98>>

Wallet1 == VArr(<<VStr(sM0), VStr(sCC), VStr(sName), VBool(TRUE), VBool(FALSE), VBytes(<<1, 2>>), VStr(sXpub)>>)
Wallet2 == VArr(<<VStr(sM0), VStr(sCC), VStr(sAb), VBool(FALSE), VBool(TRUE), VStr(sAbc), VStr(sXpub), VInt(9)>>)

\* account entries: two of the expected shape, one whose numbers are
\* floats, one with 4 elements, one whose type is an integer, one whose
\* wallet has 6 elements, one that is no sequence
Entries ==
    << VArr(<<VInt(1), VInt(0), VStr(sAbc), VInt(0), Wallet1>>),
       VArr(<<VInt(2), VInt(1), VStr(sAb), VInt(7), Wallet2, VNull>>),
       VArr(<<VFloat(3), VFloat(0 - 3), VStr(sAbc), VInt(0), Wallet1>>),
       VArr(<<VInt(1), VInt(0), VStr(sAbc), VInt(0)>>),
       VArr(<<VInt(1), VInt(0), VInt(5), VInt(0), Wallet1>>),
       VArr(<<VInt(1), VInt(0), VStr(sAbc), VInt(0),
             VArr(<<VStr(sM0), VStr(sCC), VStr(sName), VBool(TRUE), VBool(FALSE), VStr(sAbc)>>)>>),
       VInt(4) >>

\* the sequences of at most n account entries
RECURSIVE EntryLists(_)
EntryLists(n) ==
    IF n = 0 THEN {<<>>}
    ELSE LET R == EntryLists(n - 1)
         IN  R \cup {Append(r, e) : r \in {q \in R : Len(q) = n - 1},
                                    e \in 1..Len(Entries)}

\* the value trees the inner binary-object decode may give: a version and a
\* list of entries, or a tree of another shape
ShapedTree(ver, l) == VArr(<<ver, VArr([j \in 1..Len(l) |-> Entries[l[j]]])>>)
OtherTrees ==
    << VMap, VNull, VInt(1), VArr(<<>>), VArr(<<VInt(1)>>), VArr(<<VInt(1), VNull>>),
       VArr(<<VInt(1), VArr(<<VMap>>)>>) >>
Versions == << VInt(1), VFloat(5), VStr(sAb) >>

\* the strings handed to Decode: the minimal encodings of two bodies, one
\* of them with a wrong letter, with a letter missing, and cut to 4 bytes
Inputs ==
    LET good == encodeMinimal(<<0, 255>>, 2).s
    IN  << good,
           encodeMinimal(<<>>, 0).s,
           [good EXCEPT ![1] = 122],
           SubSeq(good, 1, Len(good) - 1),
           SubSeq(good, 1, 8),
           [good EXCEPT ![2] = 49] >>

-----------------------------------------------------------------------------
(* Decode, one action per stage.  The binary-object and compression codecs *)
(* are outside the package: each call of them either fails or succeeds,    *)
(* and the inner decode gives one of the value trees above.                *)

\* how a call of Decode ends: "root" (it returns), "exit" (log.Fatal ends
\* the process), "panic" (a runtime panic or panic(err))
Ended(kind, e) == [kind |-> kind, err |-> e]
NotEnded == Ended("none", "")
NoTree == [t |-> "none", v |-> 0]
NoRoot == [Version |-> 0, Accounts |-> <<>>]

\* the account put in front of the ones before it
PrependAccount(accs, a) == <<a>> \o accs

\* accounts = append(accounts, account)
AppendAccount(accs, a) == Append(accs, a)

DecodeIdle ==
    /\ stage = "off" /\ input = <<>> /\ decoded = <<>> /\ inner = NoTree
    /\ raw = <<>> /\ version = 0 /\ accList = <<>> /\ accounts = <<>>
    /\ root = NoRoot /\ outcome = NotEnded

-----------------------------------------------------------------------------
(* The codec scenario: a caller encodes a body, decodes the string, edits   *)
(* the string once and decodes it again.                                   *)

\* the separator the callers pass with each wordLen
SepOf(wordLen) == IF wordLen = 4 THEN <<32>> ELSE <<>>

RECURSIVE SeqsUpTo(_, _)
SeqsUpTo(S, n) ==
    IF n = 0 THEN {<<>>}
    ELSE LET R == SeqsUpTo(S, n - 1)
         IN  R \cup {Append(r, x) : r \in {q \in R : Len(q) = n - 1}, x \in S}

Bodies == SeqsUpTo(ByteVals, MaxLen)

NoEdit == [kind |-> "none", pos |-> 0, ch |-> 0]
NoBuf  == [full |-> FALSE, bytes |-> <<>>]

CodecIdle ==
    /\ pc = "off" /\ mem = <<>> /\ dlen = 0 /\ variant = 0 /\ str = <<>>
    /\ res = NoCall /\ buf = NoBuf /\ prevStr = <<>> /\ prevRes = NoCall
    /\ edit = NoEdit

Init ==
    /\ TablesReady
    /\ DecodeIdle
    /\ pc = "start"
    /\ \E b \in Bodies, spare \in SpareCaps :
          /\ mem = b \o [p \in 1..spare |-> SpareFill]
          /\ dlen = Len(b)
    /\ variant \in {2, 4}
    /\ str = <<>>
    /\ res = NoCall
    /\ buf = NoBuf
    /\ prevStr = <<>>
    /\ prevRes = NoCall
    /\ edit = NoEdit

EncodeMinimal ==
    /\ pc = "start"
    /\ variant = 2
    /\ LET e == encodeMinimal(mem, dlen)
       IN  str' = e.s /\ mem' = e.mem
    /\ pc' = "encoded"
    /\ UNCHANGED <<dlen, variant, res, buf, prevStr, prevRes, edit>>
    /\ UNCHANGED <<tableVars, decodeVars>>

EncodeStandard ==
    /\ pc = "start"
    /\ variant = 4
    /\ LET e == encodeStandard(mem, dlen)
       IN  str' = e.s /\ mem' = e.mem
    /\ pc' = "encoded"
    /\ UNCHANGED <<dlen, variant, res, buf, prevStr, prevRes, edit>>
    /\ UNCHANGED <<tableVars, decodeVars>>

\* the caller calls decode(str, variant, sep)
CallDecode ==
    /\ pc = "encoded"
    /\ res' = decode(str, variant, SepOf(variant))
    /\ buf' = BufOf(str, variant, SepOf(variant))
    /\ pc' = "decoded"
    /\ UNCHANGED <<mem, dlen, variant, str, prevStr, prevRes, edit>>
    /\ UNCHANGED <<tableVars, decodeVars>>

IsLetter(c) == c \in 65..90 \/ c \in 97..122
SwapCase(c) == IF c \in 65..90 THEN c + 32 ELSE c - 32

Edited(e, s) ==
    /\ pc = "decoded"
    /\ edit = NoEdit
    /\ prevStr' = str
    /\ prevRes' = res
    /\ str' = s
    /\ edit' = e
    /\ pc' = "encoded"
    /\ UNCHANGED <<mem, dlen, variant, res, buf>>
    /\ UNCHANGED <<tableVars, decodeVars>>

\* one character of the string is replaced by a different one
Replace ==
    \E p \in 1..Len(str), c \in EditChars :
        /\ c # str[p]
        /\ Edited([kind |-> "replace", pos |-> p, ch |-> c], [str EXCEPT ![p] = c])

\* one letter of the string changes case
ChangeCase ==
    \E p \in 1..Len(str) :
        /\ IsLetter(str[p])
        /\ Edited([kind |-> "case", pos |-> p, ch |-> SwapCase(str[p])],
                  [str EXCEPT ![p] = SwapCase(str[p])])

\* the string is cut to its first n characters
Truncate ==
    \E n \in 0..(Len(str) - 1) :
        Edited([kind |-> "truncate", pos |-> n, ch |-> 0], SubSeq(str, 1, n))

Next ==
    \/ EncodeMinimal
    \/ EncodeStandard
    \/ CallDecode
    \/ Replace
    \/ ChangeCase
    \/ Truncate

Spec == Init /\ [][Next]_vars

-----------------------------------------------------------------------------
(* init() on its own, from the zero values of the package variables *)

InitStart ==
    /\ words = [n \in 0..255 |-> <<>>]
    /\ lookupTable = [o \in 0..675 |-> 0]
    /\ ip = "words"
    /\ i = 0
    /\ CodecIdle
    /\ DecodeIdle

InitNext ==
    \/ InitWordsStep /\ UNCHANGED <<codecVars, decodeVars>>
    \/ InitClearStep /\ UNCHANGED <<codecVars, decodeVars>>
    \/ InitFillStep /\ UNCHANGED <<codecVars, decodeVars>>

SpecInit == InitStart /\ [][InitNext]_vars

-----------------------------------------------------------------------------
(* Decode from its first statement *)

InitDecode ==
    /\ TablesReady
    /\ CodecIdle
    /\ stage = "bytewords"
    /\ \E n \in 1..Len(Inputs) : input = Inputs[n]
    /\ decoded = <<>>
    /\ inner = NoTree
    /\ raw = <<>>
    /\ version = 0
    /\ accList = <<>>
    /\ accounts = <<>>
    /\ root = NoRoot
    /\ outcome = NotEnded

\* the call ends here with outcome o
Ends(o) ==
    /\ stage' = "done"
    /\ outcome' = o

\* log.Fatal(msg, err)
Fatal(msg) ==
    /\ Ends(Ended("exit", msg))
    /\ UNCHANGED <<input, decoded, inner, raw, version, accList, accounts, root>>

\* a runtime panic, or panic(err)
Panics(msg) ==
    /\ Ends(Ended("panic", msg))
    /\ UNCHANGED <<input, decoded, inner, raw, version, accList, accounts, root>>

\* decoded, err := decode(input, 2, "")
DecodeBytewords ==
    /\ stage = "bytewords"
    /\ LET r == decode(input, 2, <<>>)
       IN  IF r.kind = "panic" THEN Panics(r.err)
           ELSE IF r.kind = "err" THEN Fatal("Bytewords decode failed:")
           ELSE /\ decoded' = r.body
                /\ stage' = "outerCBOR"
                /\ UNCHANGED <<input, inner, raw, version, accList, accounts, root, outcome>>
    /\ UNCHANGED <<tableVars, codecVars>>

\* cbor.Unmarshal(decoded, &outer)
DecodeOuterCBOR ==
    /\ stage = "outerCBOR"
    /\ \E ok \in BOOLEAN :
          IF ~ok THEN Fatal("CBOR outer decode failed:")
          ELSE /\ stage' = "gzipReader"
               /\ UNCHANGED <<input, decoded, inner, raw, version, accList, accounts, root, outcome>>
    /\ UNCHANGED <<tableVars, codecVars>>

\* gzip.NewReader(bytes.NewReader(outer))
DecodeGzipReader ==
    /\ stage = "gzipReader"
    /\ \E ok \in BOOLEAN :
          IF ~ok THEN Fatal("gzip reader failed:")
          ELSE /\ stage' = "gzipRead"
               /\ UNCHANGED <<input, decoded, inner, raw, version, accList, accounts, root, outcome>>
    /\ UNCHANGED <<tableVars, codecVars>>

\* io.ReadAll(gr)
DecodeGzipRead ==
    /\ stage = "gzipRead"
    /\ \E ok \in BOOLEAN :
          IF ~ok THEN Fatal("gzip read failed:")
          ELSE /\ stage' = "innerCBOR"
               /\ UNCHANGED <<input, decoded, inner, raw, version, accList, accounts, root, outcome>>
    /\ UNCHANGED <<tableVars, codecVars>>

\* cbor.Unmarshal(unzipped, &inner)
DecodeInnerCBOR ==
    /\ stage = "innerCBOR"
    /\ \/ Fatal("Inner CBOR decode failed:")
       \/ /\ \/ \E v \in 1..Len(Versions), l \in EntryLists(MaxAccounts) :
                    inner' = ShapedTree(Versions[v], l)
             \/ \E n \in 1..Len(OtherTrees) : inner' = OtherTrees[n]
          /\ stage' = "json"
          /\ UNCHANGED <<input, decoded, raw, version, accList, accounts, root, outcome>>
    /\ UNCHANGED <<tableVars, codecVars>>

\* j, _ := json.MarshalIndent(inner, "", "  "); json.Unmarshal(j, &raw),
\* with panic(err)
DecodeJSON ==
    /\ stage = "json"
    /\ LET r == JsonRoundTrip(inner)
       IN  IF ~r.ok THEN Panics("json")
           ELSE /\ raw' = r.raw
                /\ stage' = "header"
                /\ UNCHANGED <<input, decoded, inner, version, accList, accounts, root, outcome>>
    /\ UNCHANGED <<tableVars, codecVars>>

\* version := int(raw[0].(float64)); accList := raw[1].([]any)
DecodeHeader ==
    /\ stage = "header"
    /\ LET e == FirstPanic(<<At(raw, 0, "float64"), At(raw, 1, "arr")>>)
       IN  IF e # "" THEN Panics(e)
           ELSE /\ version' = IntOf(raw[1])
                /\ accList' = raw[2].v
                /\ stage' = "accounts"
                /\ UNCHANGED <<input, decoded, inner, raw, accounts, root, outcome>>
    /\ UNCHANGED <<tableVars, codecVars>>

\* one iteration of for _, a := range accList
DecodeAccount ==
    /\ stage = "accounts"
    /\ Len(accounts) < Len(accList)
    /\ LET m == MapAccount(accList[Len(accounts) + 1])
       IN  IF m.panic # "" THEN Panics(m.panic)
           ELSE /\ accounts' = AppendAccount(accounts, m.account)
                /\ UNCHANGED <<stage, input, decoded, inner, raw, version, accList, root, outcome>>
    /\ UNCHANGED <<tableVars, codecVars>>

\* return Root{Version: version, Accounts: accounts}
DecodeReturn ==
    /\ stage = "accounts"
    /\ Len(accounts) = Len(accList)
    /\ root' = [Version |-> version, Accounts |-> accounts]
    /\ Ends(Ended("root", ""))
    /\ UNCHANGED <<input, decoded, inner, raw, version, accList, accounts>>
    /\ UNCHANGED <<tableVars, codecVars>>

NextDecode ==
    \/ DecodeBytewords
    \/ DecodeOuterCBOR
    \/ DecodeGzipReader
    \/ DecodeGzipRead
    \/ DecodeInnerCBOR
    \/ DecodeJSON
    \/ DecodeHeader
    \/ DecodeAccount
    \/ DecodeReturn

SpecDecode == InitDecode /\ [][NextDecode]_vars

-----------------------------------------------------------------------------
(* Properties of the codec, under Spec *)

\* the body the caller handed to the encoder
Body == SubSeq(mem, 1, dlen)

\* C1: round trip: for every byte sequence B, the empty one included,
\* decoding what encodeMinimal or encodeStandard made of B returns B
\* without an error.
C1_RoundTrip ==
    (pc = "decoded" /\ edit = NoEdit) => res = Returned(Body)

\* C3: minimal-variant chunking: decode of a string of odd length returns a
\* decode error (malformed token or too short) to its caller, and ends in
\* no other way.
C3_OddLengthReturnsError ==
    (pc = "decoded" /\ variant = 2 /\ Len(str) % 2 = 1) =>
        /\ res.kind = "err"
        /\ res.err \in {"invalid bytewords length", "invalid bytewords", "too short"}

\* in a valid standard string the words lie at 5j+1..5j+4: the characters at
\* 5j+2 and 5j+3 are the interior ones
Interior(p) == (p - 1) % 5 \in {1, 2}

\* the last edit replaced one interior character of a word of a valid
\* standard-encoded string by a different character
InteriorEdit ==
    /\ pc = "decoded"
    /\ variant = 4
    /\ prevRes.kind = "ok"
    /\ edit.kind \in {"replace", "case"}
    /\ Interior(edit.pos)

\* C4 as stated: replacing one interior character of a word of a valid
\* standard-encoded string by any different character makes decode return
\* the interior-mismatch error.
C4_AnyInteriorReplacement ==
    InteriorEdit => res = Failed("invalid bytewords middle chars")

\* C4 as amended: replacing one interior character of a word of a valid
\* standard-encoded string by a different single-byte character other than
\* the separator (space) makes decode return the interior-mismatch error.
C4_InteriorReplacementNotSeparator ==
    (InteriorEdit /\ edit.ch # 32) => res = Failed("invalid bytewords middle chars")

C4_Witness ==
    /\ InteriorEdit
    /\ edit.kind = "replace"
    /\ edit.ch = 122
    /\ (edit.pos - 1) % 5 = 2
    /\ res = Failed("invalid bytewords middle chars")

\* C6: decoding is case-insensitive in both variants: changing the case of a
\* letter of the input leaves the outcome of decode the same (the same
\* bytes, or an error in both cases).
C6_CaseInsensitive ==
    (pc = "decoded" /\ edit.kind = "case") =>
        /\ prevRes.kind = "ok" => res = prevRes
        /\ prevRes.kind # "ok" => res.kind # "ok"

\* C7: checksum verification and stripping: when every token decodes to a
\* byte, giving buf, decode succeeds exactly if buf has at least 5 bytes and
\* its last 4 are the big-endian CRC-32 of the bytes before them; it then
\* returns exactly those bytes (a non-empty body); with fewer than 5 bytes
\* the error is too short, and otherwise crc mismatch.
C7_ChecksumVerify ==
    (pc = "decoded" /\ buf.full) =>
        LET b == buf.bytes
            n == Len(b)
            good == /\ n >= 5
                    /\ SubSeq(b, n - 3, n) = crc32Bytes(SubSeq(b, 1, n - 4))
        IN  /\ res.kind = "ok" <=> good
            /\ good => (res = Returned(SubSeq(b, 1, n - 4)) /\ Len(res.body) >= 1)
            /\ n < 5 => res = Failed("too short")
            /\ (n >= 5 /\ ~good) => res = Failed("crc mismatch")

C7_Witness ==
    /\ pc = "decoded"
    /\ buf.full
    /\ Len(buf.bytes) >= 5
    /\ edit.kind = "replace"
    /\ res = Failed("crc mismatch")

\* C10: the checksum append has no effect on the caller's data: every byte
\* of the caller's backing array, within and beyond the slice's length, is
\* the same after a call of encodeMinimal or encodeStandard as before.
C10_CallerArrayUnchanged == [][mem' = mem]_vars

-----------------------------------------------------------------------------
(* Properties of init(), under SpecInit *)

\* C2: the word table is a bijection: distinct byte values have distinct
\* words with distinct (first, last) letter pairs; the lookup table maps the
\* pair of words[n] at (last-'a')*26 + (first-'a') back to n; every slot no
\* word addresses holds -1.
C2_Bijection ==
    ip = "ready" =>
        LET slot(n) == (words[n][4] - 97) * 26 + (words[n][1] - 97)
        IN  /\ \A a, b \in 0..255 :
                a # b => /\ words[a] # words[b]
                         /\ <<words[a][1], words[a][4]>> # <<words[b][1], words[b][4]>>
            /\ \A a \in 0..255 : lookupTable[slot(a)] = a
            /\ \A o \in 0..675 :
                (\A a \in 0..255 : slot(a) # o) => lookupTable[o] = -1

\* init() ends in the tables the codec starts from
InitBuildsTables ==
    ip = "ready" => (words = WordsBuilt /\ lookupTable = LookupBuilt)

C2_Witness ==
    /\ ip = "ready"
    /\ words[255] = <<122, 111, 111, 109>>
    /\ lookupTable[12 * 26 + 25] = 255
    /\ lookupTable[0] = 4
    /\ lookupTable[4] = -1

-----------------------------------------------------------------------------
(* Properties of Decode, under SpecDecode *)

\* the value tree holds an account entry with 4 elements
HasShortEntry(x) ==
    /\ x.t = "arr"
    /\ Len(x.v) >= 2
    /\ x.v[2].t = "arr"
    /\ \E j \in 1..Len(x.v[2].v) : x.v[2].v[j].t = "arr" /\ Len(x.v[2].v[j].v) = 4

\* C5: schema violation: a value tree with an account entry of 4 elements
\* makes Decode yield a SchemaMismatch error to its caller, and no Root
\* holding a partial Account.
C5_SchemaMismatchError ==
    (stage = "done" /\ HasShortEntry(inner)) =>
        /\ outcome = Ended("error", "SchemaMismatch")
        /\ root = NoRoot

\* C8: error propagation: every call of Decode ends by handing its caller
\* either a Root or a typed failure, whichever stage fails.
C8_RootOrTypedFailure ==
    stage = "done" => outcome.kind \in {"root", "error"}

\* the integer part of a number of the value tree, and the text of a string
\* or (in base64) of a byte string
NumberOf(x) == IF x.t = "int" THEN x.v ELSE IF x.v >= 0 THEN x.v \div 2 ELSE 0 - ((0 - x.v) \div 2)
TextOf(x) == IF x.t = "bytes" THEN Base64(x.v) ELSE x.v

\* C9: account order and count: when Decode succeeds on a value tree whose
\* index-1 sequence has n entries, Root.Accounts has n elements, the k-th
\* built from entry k only: ID, Index, Type, Block from its positions 0..3,
\* the WalletInfo from positions 0..6 of its position 4; Root.Version is
\* position 0 of the tree.
C9_AccountsInOrder ==
    (stage = "done" /\ outcome.kind = "root") =>
        LET es == inner.v[2].v
        IN  /\ root.Version = NumberOf(inner.v[1])
            /\ Len(root.Accounts) = Len(es)
            /\ \A j \in 1..Len(es) :
                 LET a == root.Accounts[j]
                     e == es[j].v
                     w == e[5].v
                 IN  /\ a.ID = NumberOf(e[1])
                     /\ a.Index = NumberOf(e[2])
                     /\ a.Type = TextOf(e[3])
                     /\ a.Block = NumberOf(e[4])
                     /\ a.Wallet.DerivationPath = TextOf(w[1])
                     /\ a.Wallet.ChainCode = TextOf(w[2])
                     /\ a.Wallet.Name = TextOf(w[3])
                     /\ a.Wallet.Internal1 = w[4].v
                     /\ a.Wallet.Internal2 = w[5].v
                     /\ a.Wallet.SomeBytes = TextOf(w[6])
                     /\ a.Wallet.XPub = TextOf(w[7])

C9_Witness ==
    /\ stage = "done"
    /\ outcome.kind = "root"
    /\ Len(root.Accounts) = 2
    /\ root.Accounts[1].ID = 2
    /\ root.Accounts[2].ID = 1
    /\ root.Accounts[2].Wallet.Name = sName

====
